---- MODULE Spec2Model ----
(***************************************************************************)
(* Model of the TEASER boundary-condition exporter (class AixLib) and of   *)
(* the Annex60 model-file exporter (export_annex60).                       *)
(*                                                                         *)
(* Conventions                                                             *)
(*   - A Python value that may be None is a sequence of length 0 or 1:     *)
(*     <<>> is None, <<v>> is the value v.                                 *)
(*   - A text file is the sequence of its lines; a line is the sequence of *)
(*     its tab-separated fields, each field the printed text of a value.   *)
(*     A file that does not exist and an empty file are both <<>>.         *)
(*   - AHU temperatures are held in hundredths of a kelvin (293.15 K is    *)
(*     29315); set-point profiles hold whole kelvins.                      *)
(*   - The year of 8760 hourly rows is scaled down to Hours rows.          *)
(***************************************************************************)
EXTENDS Integers, Sequences, FiniteSets, TLC

VARIABLES
    thermal_zones,        \* parent.thermal_zones: sequence of zone records
    with_ahu,             \* parent.with_ahu
    central_ahu,          \* parent.central_ahu: the four AHU profiles
    total_surface_area,   \* AixLib.total_surface_area (None or a number)
    time_line,            \* the time line object the caller holds (or None)
    ret,                  \* what the last create_profile call returned
    duration_profile,     \* arguments of the last create_profile call
    time_step,
    double,
    ahu_arg,              \* time_line argument of the last AHU export, as received
    file_set_t_heat,      \* contents of TsetHeat_<name>.txt
    file_set_t_cool,      \* contents of TsetCool_<name>.txt
    file_internal_gains,  \* contents of InternalGains_<name>.txt
    file_ahu,             \* array stored in AHU_<name>.mat
    prj,                  \* prj.buildings of the Annex60 export
    number_of_elements,   \* arguments of the last export_annex60 call
    internal_id,
    model_files,          \* files created by export_annex60: path -> text
    packages,             \* directories that received package manifests
    op,                   \* name of the last operation called
    err                   \* error raised by the last operation, "" if none

vars == <<thermal_zones, with_ahu, central_ahu, total_surface_area, time_line,
          ret, duration_profile, time_step, double, ahu_arg,
          file_set_t_heat, file_set_t_cool, file_internal_gains, file_ahu,
          prj, number_of_elements, internal_id, model_files, packages,
          op, err>>

buildingVars == <<thermal_zones, with_ahu, central_ahu>>
textFiles == <<file_set_t_heat, file_set_t_cool, file_internal_gains>>
profileVars == <<time_line, ret, duration_profile, time_step, double>>
annexVars == <<prj, number_of_elements, internal_id, model_files, packages>>

----------------------------------------------------------------------------
(* Bounds *)

Hours == 3
MaxZones == 2
MaxDuration == 4
MaxTimeStep == 2
MaxExtensions == 2
MaxAppends == 2
MaxBuildings == 2

(* Program constants *)

SecondsPerHour == 3600
DefaultDuration == 86400
DefaultTimeStep == 3600

----------------------------------------------------------------------------
(* Python helpers *)

None == <<>>
Some(v) == <<v>>

\* int(a / b) for b > 0: truncation toward zero
IntDiv(a, b) == IF a >= 0 THEN a \div b ELSE -((-a) \div b)

\* float(a / b).is_integer() for integers a, b with b > 0.  The quotient of
\* two integers below 2^31 is never rounded to a whole number by a double,
\* so within the model's range the test is exact divisibility.
IsIntegerQuotient(a, b) == a % b = 0

----------------------------------------------------------------------------
(* AixLib.create_profile *)

ass_error_duration == "duration must be a multiple of time_step"

RECURSIVE AppendTimePoints(_, _, _, _)
AppendTimePoints(i, n, ts, dbl) ==
    IF i >= n THEN <<>>
    ELSE (IF dbl THEN << <<i * ts>>, <<i * ts>> >> ELSE << <<i * ts>> >>)
         \o AppendTimePoints(i + 1, n, ts, dbl)

\* a grid that stops one step short of the duration
CreateProfileList_noEnd(d, ts, dbl) == AppendTimePoints(0, IntDiv(d, ts), ts, dbl)

\* the list create_profile returns when its assertion passes
CreateProfileList(d, ts, dbl) == AppendTimePoints(0, IntDiv(d, ts) + 1, ts, dbl)

\* the test made on the floored quotient, which is always whole
CreateProfileFails_floorDiv(d, ts) == ~IsIntegerQuotient(IntDiv(d, ts), 1)

CreateProfileFails(d, ts) == ~IsIntegerQuotient(d, ts)

\* the caller runs  time_line = create_profile(d, ts, dbl)
create_profile(d, ts, dbl) ==
    /\ duration_profile' = d
    /\ time_step' = ts
    /\ double' = dbl
    /\ op' = "create_profile"
    /\ IF CreateProfileFails(d, ts)
       THEN /\ err' = ass_error_duration
            /\ ret' = None
            /\ time_line' = time_line
       ELSE /\ err' = ""
            /\ ret' = Some(CreateProfileList(d, ts, dbl))
            /\ time_line' = Some(CreateProfileList(d, ts, dbl))
    /\ UNCHANGED <<buildingVars, total_surface_area, ahu_arg, textFiles,
                   file_ahu, annexVars>>

----------------------------------------------------------------------------
(* AixLib.modelica_AHU_boundary *)

ass_error_1 == "time line and input have to have the same length"

\* The AHU profile bundle of a building: four sequences whose lengths are
\* chosen independently, with values that differ from column to column.
AHUSeries(base, n) == [i \in 1..n |-> base + (i % 3)]

DefaultLen == IntDiv(DefaultDuration, DefaultTimeStep) + 1

AHULens == {MaxDuration, DefaultLen}

AHUBundles ==
    { [profile_temperature |-> AHUSeries(29300, n1),
       profile_min_relative_humidity |-> AHUSeries(20, n2),
       profile_max_relative_humidity |-> AHUSeries(70, n3),
       profile_v_flow |-> AHUSeries(0, n4)] :
         n1 \in AHULens, n2 \in AHULens, n3 \in AHULens, n4 \in AHULens }

\* a building without an air-handling unit has no profiles
NoAHU ==
    [profile_temperature |-> <<>>,
     profile_min_relative_humidity |-> <<>>,
     profile_max_relative_humidity |-> <<>>,
     profile_v_flow |-> <<>>]

\* lines 297-302: dummy values for the input table
DummyTimeLine == << <<0>>, <<3600>> >>
\* dummy values with the humidity bounds exchanged
DummyBundle_swapped ==
    [profile_temperature |-> <<29315, 29315>>,
     profile_min_relative_humidity |-> <<1, 1>>,
     profile_max_relative_humidity |-> <<0, 0>>,
     profile_v_flow |-> <<0, 1>>]

DummyBundle ==
    [profile_temperature |-> <<29315, 29315>>,
     profile_min_relative_humidity |-> <<0, 0>>,
     profile_max_relative_humidity |-> <<1, 1>>,
     profile_v_flow |-> <<0, 1>>]

\* the four assertions made in the reverse order
AHUAssertion_reversed(tl, b) ==
    IF Len(tl) # Len(b.profile_v_flow)
    THEN ass_error_1 \o ",profile_status_AHU"
    ELSE IF Len(tl) # Len(b.profile_max_relative_humidity)
    THEN ass_error_1 \o ",profile_max_relative_humidity"
    ELSE IF Len(tl) # Len(b.profile_min_relative_humidity)
    THEN ass_error_1 \o ",profile_min_relative_humidity"
    ELSE IF Len(tl) # Len(b.profile_temperature)
    THEN ass_error_1 \o ",profile_temperature_AHU"
    ELSE ""

\* lines 306-313: the first assertion that fails, "" if all four pass
AHUAssertion(tl, b) ==
    IF Len(tl) # Len(b.profile_temperature)
    THEN ass_error_1 \o ",profile_temperature_AHU"
    ELSE IF Len(tl) # Len(b.profile_min_relative_humidity)
    THEN ass_error_1 \o ",profile_min_relative_humidity"
    ELSE IF Len(tl) # Len(b.profile_max_relative_humidity)
    THEN ass_error_1 \o ",profile_max_relative_humidity"
    ELSE IF Len(tl) # Len(b.profile_v_flow)
    THEN ass_error_1 \o ",profile_status_AHU"
    ELSE ""

\* lines 315-320: every row of the time line is extended in place
ExtendRows(tl, b) ==
    [i \in 1..Len(tl) |->
        Append(Append(Append(Append(tl[i],
            b.profile_temperature[i]),
            b.profile_min_relative_humidity[i]),
            b.profile_max_relative_humidity[i]),
            b.profile_v_flow[i])]

\* arg = "None": the caller passes no time line; arg = "time_line": the
\* caller passes the list object it holds.
modelica_AHU_boundary(arg) ==
    /\ arg = "time_line" =>
          /\ time_line # None
          /\ \A i \in 1..Len(time_line[1]) :
                Len(time_line[1][i]) <= 1 + 4 * (MaxExtensions - 1)
    /\ LET given == IF arg = "None"
                    THEN CreateProfileList(DefaultDuration, DefaultTimeStep,
                                           FALSE)
                    ELSE time_line[1]
           tl == IF with_ahu THEN given ELSE DummyTimeLine
           b == IF with_ahu THEN central_ahu ELSE DummyBundle
           msg == AHUAssertion(tl, b)
       IN /\ op' = "modelica_AHU_boundary"
          /\ ahu_arg' = IF arg = "None" THEN None ELSE time_line
          /\ err' = msg
          /\ IF msg = ""
             THEN /\ file_ahu' = ExtendRows(tl, b)
                  /\ time_line' = IF arg = "time_line" /\ with_ahu
                                  THEN Some(ExtendRows(tl, b))
                                  ELSE time_line
             ELSE UNCHANGED <<file_ahu, time_line>>
    /\ UNCHANGED <<buildingVars, total_surface_area, ret, duration_profile,
                   time_step, double, textFiles, annexVars>>

----------------------------------------------------------------------------
(* State after construction (AixLib.__init__, lines 59-72), by part *)

InitAttr == total_surface_area = None

InitCaller ==
    /\ time_line = None
    /\ ret = None
    /\ duration_profile = DefaultDuration
    /\ time_step = DefaultTimeStep
    /\ double = FALSE
    /\ ahu_arg = None

InitFiles ==
    /\ file_set_t_heat = <<>>
    /\ file_set_t_cool = <<>>
    /\ file_internal_gains = <<>>
    /\ file_ahu = <<>>

NoProject ==
    /\ prj = <<>>
    /\ number_of_elements = 2
    /\ internal_id = None
    /\ model_files = {}
    /\ packages = {}

InitOp == op = "init" /\ err = ""

----------------------------------------------------------------------------
(* The time-grid builder on its own *)

Durations == (0 - MaxDuration) .. (2 * MaxDuration)
TimeSteps == 1 .. (MaxTimeStep + 1)

InitProfile ==
    /\ thermal_zones = <<>>
    /\ with_ahu = FALSE
    /\ central_ahu = NoAHU
    /\ InitAttr /\ InitCaller /\ InitFiles /\ NoProject /\ InitOp

NextProfile ==
    \E d \in Durations, ts \in TimeSteps, dbl \in BOOLEAN :
        create_profile(d, ts, dbl)

SpecProfile == InitProfile /\ [][NextProfile]_vars

----------------------------------------------------------------------------
(* The AHU boundary exporter with its caller *)

InitAHU ==
    /\ thermal_zones = <<>>
    /\ \/ with_ahu = TRUE /\ central_ahu \in AHUBundles
       \/ with_ahu = FALSE /\ central_ahu = NoAHU
    /\ InitAttr /\ InitCaller /\ InitFiles /\ NoProject /\ InitOp

NextAHU ==
    \/ \E d \in 0..MaxDuration, ts \in 1..MaxTimeStep, dbl \in BOOLEAN :
          create_profile(d, ts, dbl)
    \/ \E arg \in {"None", "time_line"} : modelica_AHU_boundary(arg)

SpecAHU == InitAHU /\ [][NextAHU]_vars

----------------------------------------------------------------------------
(* Thermal zones *)

ZoneName(k) == "Zone" \o ToString(k)

ProfileNames == {"heating_profile", "cooling_profile", "persons_profile",
                 "machines_profile", "lighting_profile"}

ProfileBase(p) ==
    CASE p = "heating_profile" -> 293
      [] p = "cooling_profile" -> 298
      [] p = "persons_profile" -> 100
      [] p = "machines_profile" -> 200
      [] p = "lighting_profile" -> 300

\* hourly values of profile p of the k-th zone, n of them
ZoneSeries(p, k, n) == [i \in 1..n |-> ProfileBase(p) + 10 * k + (i % 3)]

\* a wrong length is one hour short or one hour long
WrongLen(p) ==
    IF p \in {"heating_profile", "persons_profile", "lighting_profile"}
    THEN Hours - 1 ELSE Hours + 1

\* use conditions of the k-th zone; bad names the profile of wrong length
UseConditions(k, bad) ==
    [p \in ProfileNames |->
        ZoneSeries(p, k, IF p = bad THEN WrongLen(p) ELSE Hours)]

NoModelAttr ==
    [type |-> "NoneType", area_ow |-> 0, area_iw |-> 0, area_gf |-> 0,
     area_rt |-> 0, area_win |-> 0]

----------------------------------------------------------------------------
(* pandas.DataFrame as the exporters use it: an index of Hours rows and an *)
(* ordered list of labelled columns                                        *)

value_error == "Length of values does not match length of index"

ColumnIndex(frame, label) ==
    IF \E c \in 1..Len(frame) : frame[c].label = label
    THEN CHOOSE c \in 1..Len(frame) :
            /\ frame[c].label = label
            /\ \A b \in 1..(c - 1) : frame[b].label # label
    ELSE 0

\* export[label] = data: replaces the column when the label exists,
\* appends a column otherwise
SetColumn(frame, label, data) ==
    IF ColumnIndex(frame, label) = 0
    THEN Append(frame, [label |-> label, data |-> data])
    ELSE [frame EXCEPT ![ColumnIndex(frame, label)].data = data]

\* a loop that cuts or pads a value list of the wrong length to the index
RECURSIVE AssignColumns_fit(_, _, _)
AssignColumns_fit(frame, todo, j) ==
    IF j > Len(todo) THEN [ok |-> TRUE, frame |-> frame]
    ELSE AssignColumns_fit(
            SetColumn(frame, todo[j].label,
                      [i \in 1..Hours |->
                          IF i <= Len(todo[j].data) THEN todo[j].data[i]
                          ELSE 0]),
            todo, j + 1)

\* the loop over the zones: the assignments are made in order and the
\* first value list whose length is not the index length raises ValueError
RECURSIVE AssignColumns(_, _, _)
AssignColumns(frame, todo, j) ==
    IF j > Len(todo) THEN [ok |-> TRUE, frame |-> frame]
    ELSE IF Len(todo[j].data) # Hours THEN [ok |-> FALSE, frame |-> frame]
    ELSE AssignColumns(SetColumn(frame, todo[j].label, todo[j].data),
                       todo, j + 1)

\* export.index = [(i + 1) * 3600 for i in range(8760)]
ExportIndex == [i \in 1..Hours |-> i * SecondsPerHour]

\* to_csv(sep='\t', header=False): one line per row, the index first
ToCsv(frame) ==
    [i \in 1..Hours |->
        <<ToString(ExportIndex[i])>> \o
        [c \in 1..Len(frame) |-> ToString(frame[c].data[i])]]

MarkerLine == <<"#1">>

HeaderLine(name, cols) ==
    <<"double " \o name \o "(" \o ToString(Hours) \o ", " \o
      ToString(cols) \o ")">>

\* with open(path, 'a'): the lines are added after what the file holds
WriteMatrix(file, name, cols, frame) ==
    file \o <<MarkerLine, HeaderLine(name, cols)>> \o ToCsv(frame)

\* the file may take one more matrix
CanAppend(file) == Len(file) < MaxAppends * (Hours + 2)

----------------------------------------------------------------------------
(* AixLib.modelica_set_temp, modelica_set_temp_cool *)

\* DataFrame(index=..., columns=[zone.name for zone in thermal_zones])
SetTempFrame ==
    [k \in 1..Len(thermal_zones) |->
        [label |-> thermal_zones[k].name, data |-> <<>>]]

SetTempColumns(p) ==
    [k \in 1..Len(thermal_zones) |->
        [label |-> thermal_zones[k].name,
         data |-> thermal_zones[k].use_conditions[p]]]

modelica_set_temp ==
    /\ CanAppend(file_set_t_heat)
    /\ LET r == AssignColumns(SetTempFrame, SetTempColumns("heating_profile"), 1)
       IN /\ op' = "modelica_set_temp"
          /\ IF r.ok
             THEN /\ err' = ""
                  /\ file_set_t_heat' =
                        WriteMatrix(file_set_t_heat, "Tset",
                                    Len(thermal_zones) + 1, r.frame)
             ELSE /\ err' = value_error
                  /\ UNCHANGED file_set_t_heat
    /\ UNCHANGED <<buildingVars, total_surface_area, profileVars,
                   ahu_arg, file_set_t_cool, file_internal_gains,
                   file_ahu, annexVars>>

modelica_set_temp_cool ==
    /\ CanAppend(file_set_t_cool)
    /\ LET r == AssignColumns(SetTempFrame, SetTempColumns("cooling_profile"), 1)
       IN /\ op' = "modelica_set_temp_cool"
          /\ IF r.ok
             THEN /\ err' = ""
                  /\ file_set_t_cool' =
                        WriteMatrix(file_set_t_cool, "Tset",
                                    Len(thermal_zones) + 1, r.frame)
             ELSE /\ err' = value_error
                  /\ UNCHANGED file_set_t_cool
    /\ UNCHANGED <<buildingVars, total_surface_area, profileVars,
                   ahu_arg, file_set_t_heat, file_internal_gains,
                   file_ahu, annexVars>>

----------------------------------------------------------------------------
(* AixLib.modelica_gains_boundary *)

GainsPrefix(c) ==
    CASE c = 0 -> "person_" [] c = 1 -> "machines_" [] c = 2 -> "lighting_"

GainsProfile(c) ==
    CASE c = 0 -> "persons_profile"
      [] c = 1 -> "machines_profile"
      [] c = 2 -> "lighting_profile"

\* lines 372-378: three assignments per zone, in zone order
GainsColumns ==
    [j \in 1..(3 * Len(thermal_zones)) |->
        LET k == ((j - 1) \div 3) + 1
            c == (j - 1) % 3
        IN [label |-> GainsPrefix(c) \o thermal_zones[k].name,
            data |-> thermal_zones[k].use_conditions[GainsProfile(c)]]]

modelica_gains_boundary ==
    /\ CanAppend(file_internal_gains)
    /\ LET r == AssignColumns(<<>>, GainsColumns, 1)
       IN /\ op' = "modelica_gains_boundary"
          /\ IF r.ok
             THEN /\ err' = ""
                  /\ file_internal_gains' =
                        WriteMatrix(file_internal_gains, "Internals",
                                    Len(thermal_zones) * 3 + 1, r.frame)
             ELSE /\ err' = value_error
                  /\ UNCHANGED file_internal_gains
    /\ UNCHANGED <<buildingVars, total_surface_area, profileVars,
                   ahu_arg, file_set_t_heat, file_set_t_cool,
                   file_ahu, annexVars>>

----------------------------------------------------------------------------
(* The text matrix exporters on a building *)

BadProfiles == ProfileNames \cup {"none"}

\* the object model replaces the use conditions of the k-th zone
set_use_conditions(k, bad) ==
    /\ k \in 1..Len(thermal_zones)
    /\ thermal_zones' =
          [thermal_zones EXCEPT ![k].use_conditions = UseConditions(k, bad)]
    /\ op' = "set_use_conditions"
    /\ err' = ""
    /\ UNCHANGED <<with_ahu, central_ahu, total_surface_area, profileVars,
                   ahu_arg, textFiles, file_ahu, annexVars>>

TextZoneLists ==
    UNION { { [k \in 1..n |->
                 [name |-> ZoneName(k),
                  use_conditions |-> UseConditions(k, bad[k]),
                  model_attr |-> NoModelAttr]] :
              bad \in [1..n -> BadProfiles] } : n \in 0..MaxZones }

InitText ==
    /\ thermal_zones \in TextZoneLists
    /\ with_ahu = FALSE
    /\ central_ahu = NoAHU
    /\ InitAttr /\ InitCaller /\ InitFiles /\ NoProject /\ InitOp

NextText ==
    \/ modelica_set_temp
    \/ modelica_set_temp_cool
    \/ modelica_gains_boundary
    \/ \E k \in 1..MaxZones, bad \in BadProfiles : set_use_conditions(k, bad)

SpecText == InitText /\ [][NextText]_vars

----------------------------------------------------------------------------
(* Properties of the text matrix exporters *)

TextOps == {"modelica_set_temp", "modelica_set_temp_cool",
            "modelica_gains_boundary"}

FileOf(o) ==
    CASE o = "modelica_set_temp" -> file_set_t_heat
      [] o = "modelica_set_temp_cool" -> file_set_t_cool
      [] o = "modelica_gains_boundary" -> file_internal_gains

MatrixName(o) == IF o = "modelica_gains_boundary" THEN "Internals" ELSE "Tset"

ColumnCount(o) ==
    IF o = "modelica_gains_boundary"
    THEN 3 * Len(thermal_zones) + 1
    ELSE Len(thermal_zones) + 1

\* the profiles an exporter reads
ProfilesUsed(o) ==
    CASE o = "modelica_set_temp" -> {"heating_profile"}
      [] o = "modelica_set_temp_cool" -> {"cooling_profile"}
      [] o = "modelica_gains_boundary" ->
            {"persons_profile", "machines_profile", "lighting_profile"}

\* some profile the exporter reads has a length other than the year's
HasWrongLength(o) ==
    \E k \in 1..Len(thermal_zones), p \in ProfilesUsed(o) :
        Len(thermal_zones[k].use_conditions[p]) # Hours

\* the numerals a reader of the file can meet
Numerals == (0..400) \cup {i * SecondsPerHour : i \in 0..(Hours + 1)}

\* reading a field back as a number; -1 when the field is not a numeral
ParseField(f) ==
    IF \E v \in Numerals : ToString(v) = f
    THEN CHOOSE v \in Numerals : ToString(v) = f
    ELSE -1

ParseLine(line) == [j \in 1..Len(line) |-> ParseField(line[j])]

\* the lines after the marker and the header, parsed
ParsedBody(file) == [i \in 1..(Len(file) - 2) |-> ParseLine(file[i + 2])]

\* the row the claims describe for hour i (1-based)
ExpectedRow(o, i) ==
    <<i * SecondsPerHour>> \o
    (IF o = "modelica_gains_boundary"
     THEN [j \in 1..(3 * Len(thermal_zones)) |->
             thermal_zones[((j - 1) \div 3) + 1]
                .use_conditions[GainsProfile((j - 1) % 3)][i]]
     ELSE [k \in 1..Len(thermal_zones) |->
             thermal_zones[k].use_conditions[
                IF o = "modelica_set_temp" THEN "heating_profile"
                ELSE "cooling_profile"][i]])

\* C1 (as stated): after every successful call of a text matrix exporter,
\* a repeated call onto the same path included, the file is exactly one
\* "#1" line, one header line "double <Name>(8760, C)" and 8760 data rows
\* of C fields each.
C1_OneMatrixPerFile ==
    (op \in TextOps /\ err = "") =>
        /\ Len(FileOf(op)) = Hours + 2
        /\ FileOf(op)[1] = <<"#1">>
        /\ FileOf(op)[2] = HeaderLine(MatrixName(op), ColumnCount(op))
        /\ \A i \in 3..(Hours + 2) : Len(FileOf(op)[i]) = ColumnCount(op)

\* C3 (as stated): after a successful export, parsing the body of the file
\* (everything after the marker and header lines) gives exactly 8760 rows,
\* row i holding (i+1)*3600 followed by the zones' profile values of hour i
\* in zone order, so the input profiles are recovered.
C3_BodyRoundTrip ==
    (op \in TextOps /\ err = "") =>
        /\ Len(ParsedBody(FileOf(op))) = Hours
        /\ \A i \in 1..Hours : ParsedBody(FileOf(op))[i] = ExpectedRow(op, i)

\* C4: a text matrix export that reads a profile whose length is not 8760
\* fails with an error and leaves all three text files as they were.
C4_WrongLengthFailsUnwritten ==
    [][(op' \in TextOps /\ HasWrongLength(op')) =>
          (err' # "" /\ textFiles' = textFiles)]_vars

\* C4 witness: an export failed on a wrong profile length while its file
\* already held a matrix from an earlier call, which is still there.
C4_Witness ==
    /\ op \in TextOps
    /\ HasWrongLength(op)
    /\ err = value_error
    /\ Len(FileOf(op)) = Hours + 2

----------------------------------------------------------------------------
(* Properties of the time-grid builder *)

\* the grid the contract describes for the arguments of the last call
ExpectedGrid ==
    LET n == (duration_profile \div time_step) + 1
    IN IF double
       THEN [i \in 1..(2 * n) |-> <<((i - 1) \div 2) * time_step>>]
       ELSE [i \in 1..n |-> <<(i - 1) * time_step>>]

\* C2: for a duration >= 0 that is an exact multiple of the step,
\* create_profile returns the rows [0], [step], ..., [duration] in order,
\* duration/step + 1 of them, or each of them twice in a row when double.
C2_GridOfMultiples ==
    (op = "create_profile" /\ duration_profile >= 0
        /\ duration_profile % time_step = 0) =>
        /\ err = ""
        /\ ret = Some(ExpectedGrid)
        /\ Len(ret[1]) = (IF double THEN 2 ELSE 1)
                         * ((duration_profile \div time_step) + 1)
        /\ ret[1][Len(ret[1])] = <<duration_profile>>

\* C2 witness: a doubled grid of three time points with a step above one
C2_Witness ==
    /\ op = "create_profile"
    /\ double
    /\ time_step = 2
    /\ duration_profile = 4
    /\ ret = Some(<< <<0>>, <<0>>, <<2>>, <<2>>, <<4>>, <<4>> >>)

----------------------------------------------------------------------------
(* Properties of the AHU boundary exporter *)

\* the time grid the last AHU export started from
AHUGrid ==
    IF ahu_arg = None
    THEN [i \in 1..DefaultLen |-> <<(i - 1) * DefaultTimeStep>>]
    ELSE ahu_arg[1]

\* C5: without an air-handling unit the exported array is the two rows
\* [0, 293.15, 0, 1, 0] and [3600, 293.15, 0, 1, 1] whatever time line the
\* caller passes, and the export does not fail.
C5_DummyArray ==
    (op = "modelica_AHU_boundary" /\ ~with_ahu) =>
        /\ err = ""
        /\ file_ahu = << <<0, 29315, 0, 1, 0>>, <<3600, 29315, 0, 1, 1>> >>

\* C5 witness: the dummy array was written by a call that was passed a
\* time line of more than two rows, which the caller still holds untouched
C5_Witness ==
    /\ op = "modelica_AHU_boundary"
    /\ ~with_ahu
    /\ ahu_arg # None
    /\ Len(ahu_arg[1]) > 2
    /\ time_line = ahu_arg
    /\ Len(file_ahu) = 2

\* C6 (as stated): after every successful AHU export of a building with an
\* air-handling unit, a second call with the same time_line object
\* included, row i of the array is [t_i, temperature[i], min humidity[i],
\* max humidity[i], flow[i]] with t_i the i-th time point of the grid.
C6_RowsOfFive ==
    (op = "modelica_AHU_boundary" /\ with_ahu /\ err = "") =>
        /\ Len(file_ahu) = Len(AHUGrid)
        /\ \A i \in 1..Len(file_ahu) :
              file_ahu[i] = <<AHUGrid[i][1],
                              central_ahu.profile_temperature[i],
                              central_ahu.profile_min_relative_humidity[i],
                              central_ahu.profile_max_relative_humidity[i],
                              central_ahu.profile_v_flow[i]>>

AHUProfileOrder ==
    <<"profile_temperature", "profile_min_relative_humidity",
      "profile_max_relative_humidity", "profile_v_flow">>

AHUProfileLabel ==
    <<"profile_temperature_AHU", "profile_min_relative_humidity",
      "profile_max_relative_humidity", "profile_status_AHU">>

\* positions, in the order temperature, min humidity, max humidity, flow,
\* of the sequences whose length is not n
Mismatching(b, n) == {j \in 1..4 : Len(b[AHUProfileOrder[j]]) # n}

FirstMismatch(b, n) ==
    CHOOSE j \in Mismatching(b, n) : \A h \in Mismatching(b, n) : j <= h

\* C10: with an air-handling unit and a profile sequence whose length is
\* not the time grid's, the AHU export fails with the precondition error
\* naming the first mismatching sequence, and neither the caller's
\* time_line nor the file is changed.
C10_MismatchFailsFirst ==
    [][(op' = "modelica_AHU_boundary" /\ with_ahu'
            /\ Mismatching(central_ahu', Len(AHUGrid')) # {}) =>
          /\ err' = "time line and input have to have the same length,"
                    \o AHUProfileLabel[FirstMismatch(central_ahu',
                                                      Len(AHUGrid'))]
          /\ time_line' = time_line
          /\ file_ahu' = file_ahu]_vars

\* C10 witness: an export was passed the caller's own time line, failed on
\* the third sequence (the first two matching), and the caller's rows still
\* hold one entry each
C10_Witness ==
    /\ op = "modelica_AHU_boundary"
    /\ with_ahu
    /\ err = "time line and input have to have the same length,"
             \o "profile_max_relative_humidity"
    /\ ahu_arg # None
    /\ time_line = ahu_arg
    /\ \A i \in 1..Len(time_line[1]) : Len(time_line[1][i]) = 1
    /\ Len(central_ahu.profile_v_flow) # Len(time_line[1])

----------------------------------------------------------------------------
(* AixLib.calc_auxiliary_attr, AixLib._calc_surface_area *)

ElementTypes == {"OneElement", "TwoElement", "ThreeElement", "FourElement",
                 "NoneType"}

\* the envelope description of a zone; every zone carries the five areas
ModelAttr(type) ==
    [type |-> type, area_ow |-> 10, area_iw |-> 5, area_gf |-> 20,
     area_rt |-> 40, area_win |-> 2]

\* a four-element zone summed without its roof
ZoneArea_noRoof(m) ==
    CASE m.type = "OneElement" -> m.area_ow + m.area_win
      [] m.type = "TwoElement" -> m.area_ow + m.area_iw + m.area_win
      [] m.type = "ThreeElement" ->
            m.area_ow + m.area_iw + m.area_gf + m.area_win
      [] m.type = "FourElement" ->
            m.area_ow + m.area_iw + m.area_gf + m.area_win
      [] OTHER -> 0

\* lines 83-104: what one zone adds to surf_area_temp
ZoneArea(m) ==
    CASE m.type = "OneElement" -> m.area_ow + m.area_win
      [] m.type = "TwoElement" -> m.area_ow + m.area_iw + m.area_win
      [] m.type = "ThreeElement" ->
            m.area_ow + m.area_iw + m.area_gf + m.area_win
      [] m.type = "FourElement" ->
            m.area_ow + m.area_iw + m.area_gf + m.area_rt + m.area_win
      [] OTHER -> 0

\* lines 81-104: the loop over the zones, surf_area_temp starting at 0
RECURSIVE SurfaceAreaFrom(_, _, _)
SurfaceAreaFrom(zones, k, surf_area_temp) ==
    IF k > Len(zones) THEN surf_area_temp
    ELSE SurfaceAreaFrom(zones, k + 1,
                         surf_area_temp + ZoneArea(zones[k].model_attr))

calc_auxiliary_attr ==
    /\ total_surface_area' = Some(SurfaceAreaFrom(thermal_zones, 1, 0))
    /\ op' = "calc_auxiliary_attr"
    /\ err' = ""
    /\ UNCHANGED <<buildingVars, profileVars, ahu_arg, textFiles, file_ahu,
                   annexVars>>

\* the object model replaces the envelope description of the k-th zone
set_model_attr(k, type) ==
    /\ k \in 1..Len(thermal_zones)
    /\ thermal_zones' = [thermal_zones EXCEPT ![k].model_attr = ModelAttr(type)]
    /\ op' = "set_model_attr"
    /\ err' = ""
    /\ UNCHANGED <<with_ahu, central_ahu, total_surface_area, profileVars,
                   ahu_arg, textFiles, file_ahu, annexVars>>

AreaZoneLists ==
    UNION { { [k \in 1..n |->
                 [name |-> ZoneName(k),
                  use_conditions |-> UseConditions(k, "none"),
                  model_attr |-> ModelAttr(type[k])]] :
              type \in [1..n -> ElementTypes] } : n \in 0..MaxZones }

InitArea ==
    /\ thermal_zones \in AreaZoneLists
    /\ with_ahu = FALSE
    /\ central_ahu = NoAHU
    /\ InitAttr /\ InitCaller /\ InitFiles /\ NoProject /\ InitOp

NextArea ==
    \/ calc_auxiliary_attr
    \/ \E k \in 1..MaxZones, type \in ElementTypes : set_model_attr(k, type)

SpecArea == InitArea /\ [][NextArea]_vars

\* the area fields defined for an envelope variant
AreaFields(type) ==
    CASE type = "OneElement" -> {"area_ow", "area_win"}
      [] type = "TwoElement" -> {"area_ow", "area_win", "area_iw"}
      [] type = "ThreeElement" -> {"area_ow", "area_win", "area_iw", "area_gf"}
      [] type = "FourElement" ->
            {"area_ow", "area_win", "area_iw", "area_gf", "area_rt"}
      [] OTHER -> {}

RECURSIVE SumOver(_, _)
SumOver(f, S) ==
    IF S = {} THEN 0
    ELSE LET x == CHOOSE y \in S : TRUE IN f[x] + SumOver(f, S \ {x})

\* the sum, over all zones, of the fields defined for the zone's variant
ExpectedArea(zones) ==
    SumOver([p \in {<<k, a>> : k \in 1..Len(zones),
                               a \in {"area_ow", "area_win", "area_iw",
                                      "area_gf", "area_rt"}} |->
                IF p[2] \in AreaFields(zones[p[1]].model_attr.type)
                THEN zones[p[1]].model_attr[p[2]] ELSE 0],
            {<<k, a>> : k \in 1..Len(zones),
                        a \in {"area_ow", "area_win", "area_iw",
                               "area_gf", "area_rt"}})

\* C8: calc_auxiliary_attr leaves in total_surface_area the sum over the
\* zones of the area fields of each zone's variant, whatever it held
\* before, and changes no zone and no other building attribute.
C8_TotalSurfaceArea ==
    [][op' = "calc_auxiliary_attr" =>
          /\ total_surface_area' = Some(ExpectedArea(thermal_zones))
          /\ buildingVars' = buildingVars]_vars

\* C8 witness: a two-element and a four-element zone sum to 17 + 77
C8_Witness ==
    /\ op = "calc_auxiliary_attr"
    /\ Len(thermal_zones) = 2
    /\ thermal_zones[1].model_attr.type = "TwoElement"
    /\ thermal_zones[2].model_attr.type = "FourElement"
    /\ total_surface_area = Some(94)

----------------------------------------------------------------------------
(* export_annex60 *)

unbound_local_error == "local variable 'zone_template' referenced before assignment"

\* zone.name.replace(" ", ""): a name is the sequence of its words
RECURSIVE StripSpaces(_)
StripSpaces(words) ==
    IF words = <<>> THEN "" ELSE Head(words) \o StripSpaces(Tail(words))

\* lines 79-81: path of the model file of a zone
ModelFilePath(bldg, zone) ==
    <<bldg.name, bldg.name \o "_Models",
      bldg.name \o "_" \o StripSpaces(zone.name) \o ".mo">>

\* lines 54-62: the template bound to zone_template, None when the branch
\* taken is a bare pass and the name stays unbound
ZoneTemplate(n) == IF n = 2 THEN Some("Annex60_TwoElements") ELSE None

\* zone_template.render_unicode(bldg=bldg, zone=zone)
Render(template, bldg, zone) ==
    template \o ":" \o bldg.name \o ":" \o StripSpaces(zone.name)

\* open(path, 'w') followed by write(text): the file is created or
\* emptied, then holds text
WriteFile(files, path, text) ==
    {f \in files : f.path # path} \cup {[path |-> path, text |-> text]}

\* aixlib_output._help_package and _help_package_order put the two
\* manifests into a directory
HelpPackage(pkgs, dir) == pkgs \cup {dir}

\* lines 75-91: the zones of one building from the j-th on
RECURSIVE ExportZones(_, _, _, _)
ExportZones(st, template, bldg, j) ==
    IF j > Len(bldg.thermal_zones) THEN st
    ELSE LET zone == bldg.thermal_zones[j]
             path == ModelFilePath(bldg, zone)
         IN IF template = None
            THEN [st EXCEPT !.files = WriteFile(st.files, path, ""),
                            !.err = unbound_local_error]
            ELSE ExportZones(
                    [st EXCEPT
                       !.files = WriteFile(st.files, path,
                                           Render(template[1], bldg, zone)),
                       !.packages = HelpPackage(st.packages,
                                       <<bldg.name, bldg.name \o "_Models">>)],
                    template, bldg, j + 1)

\* lines 64-91: the buildings from the k-th on; an error ends the export
RECURSIVE ExportBuildings(_, _, _, _)
ExportBuildings(st, template, bldgs, k) ==
    IF k > Len(bldgs) \/ st.err # "" THEN st
    ELSE ExportBuildings(
            ExportZones([st EXCEPT !.packages =
                            HelpPackage(st.packages, <<bldgs[k].name>>)],
                        template, bldgs[k], 1),
            template, bldgs, k + 1)

\* lines 44-49
ExportedListOfBuildings(id) ==
    IF id # None
    THEN SelectSeq(prj, LAMBDA bldg : bldg.internal_id = id[1])
    ELSE prj

export_annex60(n, id) ==
    /\ number_of_elements' = n
    /\ internal_id' = id
    /\ op' = "export_annex60"
    /\ LET st == ExportBuildings(
                    [files |-> model_files,
                     packages |-> HelpPackage(packages, <<>>),
                     err |-> ""],
                    ZoneTemplate(n), ExportedListOfBuildings(id), 1)
       IN /\ model_files' = st.files
          /\ packages' = st.packages
          /\ err' = st.err
    /\ UNCHANGED <<buildingVars, total_surface_area, profileVars, ahu_arg,
                   textFiles, file_ahu, prj>>

\* the projects: building k is named Bk, has internal_id k and up to
\* MaxZones zones named "Zone 1", "Zone 2", ...
Projects ==
    UNION { { [k \in 1..nb |->
                 [name |-> "B" \o ToString(k),
                  internal_id |-> k,
                  thermal_zones |->
                     [j \in 1..nz[k] |-> [name |-> <<"Zone", ToString(j)>>]]]] :
              nz \in [1..nb -> 0..MaxZones] } : nb \in 0..MaxBuildings }

InitAnnex60 ==
    /\ thermal_zones = <<>>
    /\ with_ahu = FALSE
    /\ central_ahu = NoAHU
    /\ InitAttr /\ InitCaller /\ InitFiles /\ InitOp
    /\ prj \in Projects
    /\ number_of_elements = 2
    /\ internal_id = None
    /\ model_files = {}
    /\ packages = {}

NextAnnex60 ==
    \E n \in 1..4, id \in {None} \cup {Some(i) : i \in 1..MaxBuildings} :
        export_annex60(n, id)

SpecAnnex60 == InitAnnex60 /\ [][NextAnnex60]_vars

\* C7 (as stated): with number_of_elements 1, 3 or 4, export_annex60
\* completes without an error and creates or leaves no model file, also
\* for projects whose exported buildings have thermal zones.
C7_SilentNoOp ==
    [][(op' = "export_annex60" /\ number_of_elements' \in {1, 3, 4}) =>
          (err' = "" /\ model_files' = model_files)]_vars

====
